---- MODULE Spec2Model ----
(***************************************************************************)
(* Model of the income-statistics scripts fetch_statscan_income.py and     *)
(* statscan_income_analyzer.py: the range parsers, the percentile          *)
(* estimators, the average estimator and the two summary builders.         *)
(*                                                                         *)
(* Conventions.                                                            *)
(*  - A Python str is a sequence of one-character strings.                 *)
(*  - A Python value is a record [tag, num, den]: tag "num" is the number  *)
(*    num/den in lowest terms, tag "None" is None, any other tag is the    *)
(*    name of the exception the call ended with.                           *)
(*  - A 'percentage' is held in tenths of a percent (Pct), so that          *)
(*    5.4 is 54 and the targets 25 and 75 are 250 and 750; arithmetic is   *)
(*    exact (rational), binary floating point rounding is not modelled.    *)
(***************************************************************************)
EXTENDS Integers, Sequences, FiniteSets, TLC

VARIABLES range_str, distribution, income_data, op, ret, thr, frame

vars == <<range_str, distribution, income_data, op, ret, thr, frame>>

-----------------------------------------------------------------------------
(* Python values *)

RECURSIVE Gcd(_, _)
Gcd(a, b) == IF b = 0 THEN a ELSE Gcd(b, a % b)

Abs(x) == IF x < 0 THEN -x ELSE x

None == [tag |-> "None", num |-> 0, den |-> 1]

Num(n) == [tag |-> "num", num |-> n, den |-> 1]

\* the number n/d (d > 0), in lowest terms
Frac(n, d) ==
    LET g == Gcd(Abs(n), d)
    IN  [tag |-> "num", num |-> n \div g, den |-> d \div g]

Raise(exc) == [tag |-> exc, num |-> 0, den |-> 1]

IsNum(v) == v.tag = "num"

IsNone(v) == v.tag = "None"

Raised(v) == v.tag \notin {"num", "None"}

\* a <= b for numbers
Leq(a, b) == a.num * b.den <= b.num * a.den

\* Python truthiness of a number or None ("if mid_point:", "if median_income:")
Truthy(v) == IsNum(v) /\ v.num # 0

\* the local variables of a call of
\* calculate_bottom_25_threshold_from_distribution that has not started; pc is
\* its position: "idle", "loop" (the for statement, about to take bracket i),
\* "divide" (about to run remaining_pct / percentage) or "done"
NoFrame ==
    [pc |-> "idle", i |-> 0, cumulative_pct |-> 0, percentage |-> 0,
     remaining_pct |-> 0, bracket_share |-> None]

-----------------------------------------------------------------------------
(* Python str operations used by the parsers *)

Digit == {"0", "1", "2", "3", "4", "5", "6", "7", "8", "9"}

DigitVal(c) ==
    CASE c = "0" -> 0 [] c = "1" -> 1 [] c = "2" -> 2 [] c = "3" -> 3
      [] c = "4" -> 4 [] c = "5" -> 5 [] c = "6" -> 6 [] c = "7" -> 7
      [] c = "8" -> 8 [] c = "9" -> 9

\* str.lower() on the letters the labels use
LowerChar(c) ==
    CASE c = "U" -> "u" [] c = "O" -> "o" [] c = "T" -> "t" [] c = "A" -> "a"
      [] OTHER -> c

lower(s) == [i \in 1..Len(s) |-> LowerChar(s[i])]

\* str.replace(c, '') for a one-character c
replace(s, c) == SelectSeq(s, LAMBDA x : x # c)

\* sub in s
Contains(s, sub) ==
    \E i \in 1..(Len(s) - Len(sub) + 1) : SubSeq(s, i, i + Len(sub) - 1) = sub

RECURSIVE rstrip(_)
rstrip(s) ==
    IF s # <<>> /\ s[Len(s)] = " " THEN rstrip(SubSeq(s, 1, Len(s) - 1)) ELSE s

RECURSIVE lstrip(_)
lstrip(s) == IF s # <<>> /\ s[1] = " " THEN lstrip(Tail(s)) ELSE s

strip(s) == lstrip(rstrip(s))

endswith(s, c) == s # <<>> /\ s[Len(s)] = c

\* re.findall(r'\d+', s): the maximal runs of digits, left to right
RECURSIVE FindAllFrom(_, _, _, _)
FindAllFrom(s, i, cur, acc) ==
    IF i > Len(s)
    THEN IF cur # <<>> THEN Append(acc, cur) ELSE acc
    ELSE IF s[i] \in Digit
         THEN FindAllFrom(s, i + 1, Append(cur, s[i]), acc)
         ELSE FindAllFrom(s, i + 1, <<>>,
                          IF cur # <<>> THEN Append(acc, cur) ELSE acc)

findall(s) == FindAllFrom(s, 1, <<>>, <<>>)

\* int(token) / float(token) of a run of digits
RECURSIVE int(_)
int(tok) ==
    IF tok = <<>> THEN 0
    ELSE 10 * int(SubSeq(tok, 1, Len(tok) - 1)) + DigitVal(tok[Len(tok)])

\* range_str.replace('$', '').replace(',', '')
clean_str(s) == replace(replace(s, "$"), ",")

kw_under == <<"u", "n", "d", "e", "r">>

kw_over == <<"o", "v", "e", "r">>

kw_and_over == <<"a", "n", "d", " ", "o", "v", "e", "r">>

-----------------------------------------------------------------------------
(* fetch_statscan_income.py: the range parser *)

IsUnderKind(c) == Contains(lower(c), kw_under)

IsOverKind(c) ==
    \/ Contains(lower(c), kw_over)
    \/ Contains(lower(c), kw_and_over)
    \/ endswith(strip(c), "+")

extract_minimum_of_range(s) ==
    LET c == clean_str(s)
        numbers == findall(c)
    IN  IF IsUnderKind(c)
        THEN IF numbers # <<>> THEN Num(0) ELSE None
        ELSE IF IsOverKind(c)
        THEN IF numbers # <<>> THEN Num(int(numbers[1])) ELSE None
        ELSE IF Len(numbers) >= 1 THEN Num(int(numbers[1])) ELSE None

extract_maximum_of_range(s) ==
    LET c == clean_str(s)
        numbers == findall(c)
    IN  IF IsUnderKind(c)
        THEN IF numbers # <<>> THEN Num(int(numbers[1])) ELSE None
        ELSE IF IsOverKind(c)
        THEN IF numbers # <<>> THEN Num(int(numbers[1]) * 2) ELSE None
        ELSE IF Len(numbers) >= 2 THEN Num(int(numbers[2]))
        ELSE IF Len(numbers) = 1 THEN Num(int(numbers[1]))
        ELSE None

-----------------------------------------------------------------------------
(* statscan_income_analyzer.py: the midpoint of a range *)

extract_midpoint_of_range(s) ==
    LET c == clean_str(s)
        numbers == findall(c)
    IN  IF Len(numbers) = 2
        THEN Frac(int(numbers[1]) + int(numbers[2]), 2)
        ELSE IF Len(numbers) = 1
        THEN LET value == int(numbers[1])
             IN  IF Contains(c, <<"<">>) THEN Frac(value, 2)
                 ELSE IF Contains(c, <<">">>) \/ Contains(c, <<"+">>)
                 THEN Frac(value * 3, 2)
                 ELSE Num(value)
        ELSE None

-----------------------------------------------------------------------------
(* Arithmetic on Python numbers (exact) *)

Add(a, b) == Frac(a.num * b.den + b.num * a.den, a.den * b.den)

Sub(a, b) == Frac(a.num * b.den - b.num * a.den, a.den * b.den)

Mul(a, b) == Frac(a.num * b.num, a.den * b.den)

\* a / b: ZeroDivisionError when b is 0
Div(a, b) ==
    IF b.num = 0 THEN Raise("ZeroDivisionError")
    ELSE IF b.num > 0 THEN Frac(a.num * b.den, a.den * b.num)
    ELSE Frac(-(a.num * b.den), a.den * (-b.num))

\* round(x): the nearest integer, a tie going to the even one
round(x) ==
    LET q == x.num \div x.den
        r == x.num % x.den
    IN  IF 2 * r < x.den THEN Num(q)
        ELSE IF 2 * r > x.den THEN Num(q + 1)
        ELSE IF q % 2 = 0 THEN Num(q) ELSE Num(q + 1)

\* a percentage such as 5.4, held in tenths
Pct(whole, tenths) == 10 * whole + tenths

-----------------------------------------------------------------------------
(* fetch_statscan_income.py: the percentile estimators *)

\* LastMaximumOrZero taking the lower bound of the last bracket
LastMaximumOrZero_Minimum(d) ==
    IF d # <<>>
    THEN LET min_income == extract_minimum_of_range(d[Len(d)].range)
         IN  IF ~IsNone(min_income) THEN min_income ELSE Num(0)
    ELSE Num(0)

\* "if distribution: ... return max_income if max_income is not None else 0"
LastMaximumOrZero(d) ==
    IF d # <<>>
    THEN LET max_income == extract_maximum_of_range(d[Len(d)].range)
         IN  IF ~IsNone(max_income) THEN max_income ELSE Num(0)
    ELSE Num(0)

\* Scan75 with "cumulative_pct > 75" for ">= 75"
RECURSIVE Scan75_Strict(_, _, _)
Scan75_Strict(d, i, cumulative_pct) ==
    IF i > Len(d)
    THEN IF d # <<>>
         THEN LET max_income == extract_maximum_of_range(d[Len(d)].range)
              IN  IF ~IsNone(max_income) THEN max_income ELSE Num(0)
         ELSE Num(0)
    ELSE LET cumulative == cumulative_pct + d[i].percentage
         IN  IF cumulative > Pct(75, 0)
             THEN LET min_income == extract_minimum_of_range(d[i].range)
                  IN  IF ~IsNone(min_income) THEN min_income ELSE Num(0)
             ELSE Scan75_Strict(d, i + 1, cumulative)

RECURSIVE Scan75(_, _, _)
Scan75(d, i, cumulative_pct) ==
    IF i > Len(d) THEN LastMaximumOrZero(d)
    ELSE LET cumulative == cumulative_pct + d[i].percentage
         IN  IF cumulative >= Pct(75, 0)
             THEN LET min_income == extract_minimum_of_range(d[i].range)
                  IN  IF ~IsNone(min_income) THEN min_income ELSE Num(0)
             ELSE Scan75(d, i + 1, cumulative)

calculate_75th_percentile_threshold_from_distribution(d) == Scan75(d, 1, 0)

\* InterpolateInBracket with the bracket's own share counted in the
\* cumulative share it subtracts
InterpolateInBracket_OwnShare(bracket, target, cumulative_pct) ==
    LET remaining_pct == target - (cumulative_pct + bracket.percentage)
        bracket_share == Div(Num(remaining_pct), Num(bracket.percentage))
        min_income == extract_minimum_of_range(bracket.range)
        max_income == extract_maximum_of_range(bracket.range)
    IN  IF Raised(bracket_share) THEN bracket_share
        ELSE IF ~IsNone(min_income) /\ ~IsNone(max_income)
        THEN round(Add(min_income, Mul(Sub(max_income, min_income), bracket_share)))
        ELSE IF ~IsNone(min_income) THEN min_income ELSE Num(0)

\* the body of the loop of calculate_bottom_25_threshold_from_distribution
\* once "cumulative_pct + percentage >= 25" holds
InterpolateInBracket(bracket, target, cumulative_pct) ==
    LET remaining_pct == target - cumulative_pct
        bracket_share == Div(Num(remaining_pct), Num(bracket.percentage))
        min_income == extract_minimum_of_range(bracket.range)
        max_income == extract_maximum_of_range(bracket.range)
    IN  IF Raised(bracket_share) THEN bracket_share
        ELSE IF ~IsNone(min_income) /\ ~IsNone(max_income)
        THEN round(Add(min_income, Mul(Sub(max_income, min_income), bracket_share)))
        ELSE IF ~IsNone(min_income) THEN min_income ELSE Num(0)

\* the scan of calculate_bottom_25_threshold_from_distribution, its
\* hard-coded 25 read as the parameter target
RECURSIVE ScanInterpolated(_, _, _, _)
ScanInterpolated(d, target, i, cumulative_pct) ==
    IF i > Len(d) THEN LastMaximumOrZero(d)
    ELSE IF cumulative_pct + d[i].percentage >= target
         THEN InterpolateInBracket(d[i], target, cumulative_pct)
         ELSE ScanInterpolated(d, target, i + 1, cumulative_pct + d[i].percentage)

calculate_bottom_25_threshold_from_distribution(d) ==
    ScanInterpolated(d, Pct(25, 0), 1, 0)

-----------------------------------------------------------------------------
(* statscan_income_analyzer.py: the estimators *)

RECURSIVE ScanAverage(_, _, _, _)
ScanAverage(d, i, total_weighted_income, total_percentage) ==
    IF i > Len(d)
    THEN IF total_percentage > 0
         THEN Div(total_weighted_income, Num(total_percentage))
         ELSE Num(0)
    ELSE LET mid_point == extract_midpoint_of_range(d[i].range)
         IN  IF Truthy(mid_point)
             THEN ScanAverage(d, i + 1,
                              Add(total_weighted_income,
                                  Mul(mid_point, Num(d[i].percentage))),
                              total_percentage + d[i].percentage)
             ELSE ScanAverage(d, i + 1, total_weighted_income, total_percentage)

estimate_average_from_distribution(d) == ScanAverage(d, 1, Num(0), 0)

\* LastFirstNumberOrZero without its "if distribution:" guard:
\* distribution[-1] of an empty list
LastFirstNumberOrZero_NoGuard(d) ==
    IF d = <<>> THEN Raise("IndexError")
    ELSE LET numbers == findall(clean_str(d[Len(d)].range))
         IN  IF numbers # <<>> THEN Num(int(numbers[1])) ELSE Num(0)

\* LastFirstNumberOrZero taking the last number of the label, numbers[-1]
LastFirstNumberOrZero_LastNumber(d) ==
    IF d # <<>>
    THEN LET numbers == findall(clean_str(d[Len(d)].range))
         IN  IF numbers # <<>> THEN Num(int(numbers[Len(numbers)])) ELSE Num(0)
    ELSE Num(0)

\* "if distribution: ... if numbers: return int(numbers[0])" and "return 0"
LastFirstNumberOrZero(d) ==
    IF d # <<>>
    THEN LET numbers == findall(clean_str(d[Len(d)].range))
         IN  IF numbers # <<>> THEN Num(int(numbers[1])) ELSE Num(0)
    ELSE Num(0)

\* ScanTop75 giving 0, the lower bound, for a crossing bracket with '<'
RECURSIVE ScanTop75_LowerBound(_, _, _)
ScanTop75_LowerBound(d, i, cumulative_pct) ==
    IF i > Len(d)
    THEN IF d # <<>>
         THEN LET numbers == findall(clean_str(d[Len(d)].range))
              IN  IF numbers # <<>> THEN Num(int(numbers[1])) ELSE Num(0)
         ELSE Num(0)
    ELSE LET cumulative == cumulative_pct + d[i].percentage
             c == clean_str(d[i].range)
             numbers == findall(c)
         IN  IF cumulative >= Pct(25, 0)
             THEN IF Contains(c, <<"<">>)
                  THEN IF numbers = <<>> THEN Raise("IndexError") ELSE Num(0)
                  ELSE IF Len(numbers) >= 1 THEN Num(int(numbers[1]))
                  ELSE ScanTop75_LowerBound(d, i + 1, cumulative)
             ELSE ScanTop75_LowerBound(d, i + 1, cumulative)

RECURSIVE ScanTop75(_, _, _)
ScanTop75(d, i, cumulative_pct) ==
    IF i > Len(d) THEN LastFirstNumberOrZero(d)
    ELSE LET cumulative == cumulative_pct + d[i].percentage
             c == clean_str(d[i].range)
             numbers == findall(c)
         IN  IF cumulative >= Pct(25, 0)
             THEN IF Contains(c, <<"<">>)
                  THEN IF numbers = <<>> THEN Raise("IndexError")
                       ELSE Num(int(numbers[1]))
                  ELSE IF Len(numbers) >= 1 THEN Num(int(numbers[1]))
                  ELSE ScanTop75(d, i + 1, cumulative)
             ELSE ScanTop75(d, i + 1, cumulative)

calculate_top_75_threshold(d) == ScanTop75(d, 1, 0)

-----------------------------------------------------------------------------
(* Python dicts: income_data and the brackets of a distribution *)

\* {'range': l, 'percentage': p}; the key 'absolute' of the sample data is
\* read by no function and is left out
Bracket(l, p) == [range |-> l, percentage |-> p]

\* income_data: keys is the set of keys the dict has
get(d, key, default) == IF key \in d.keys THEN d[key] ELSE default

IncomeDataKeys ==
    {"average_household_income", "median_household_income", "income_distribution"}

\* get_sample_toronto_income_data: 'income_distribution'
SampleTorontoDistribution ==
    << Bracket(<<"U", "n", "d", "e", "r", " ", "$", "1", "0", ",", "0", "0", "0">>,
               Pct(5, 4)),
       Bracket(<<"$", "1", "0", ",", "0", "0", "0", " ", "t", "o", " ", "$", "1", "9", ",", "9", "9", "9">>,
               Pct(7, 1)),
       Bracket(<<"$", "2", "0", ",", "0", "0", "0", " ", "t", "o", " ", "$", "2", "9", ",", "9", "9", "9">>,
               Pct(8, 3)),
       Bracket(<<"$", "3", "0", ",", "0", "0", "0", " ", "t", "o", " ", "$", "3", "9", ",", "9", "9", "9">>,
               Pct(8, 9)),
       Bracket(<<"$", "4", "0", ",", "0", "0", "0", " ", "t", "o", " ", "$", "4", "9", ",", "9", "9", "9">>,
               Pct(9, 2)),
       Bracket(<<"$", "5", "0", ",", "0", "0", "0", " ", "t", "o", " ", "$", "5", "9", ",", "9", "9", "9">>,
               Pct(9, 0)),
       Bracket(<<"$", "6", "0", ",", "0", "0", "0", " ", "t", "o", " ", "$", "6", "9", ",", "9", "9", "9">>,
               Pct(8, 4)),
       Bracket(<<"$", "7", "0", ",", "0", "0", "0", " ", "t", "o", " ", "$", "7", "9", ",", "9", "9", "9">>,
               Pct(7, 6)),
       Bracket(<<"$", "8", "0", ",", "0", "0", "0", " ", "t", "o", " ", "$", "8", "9", ",", "9", "9", "9">>,
               Pct(6, 6)),
       Bracket(<<"$", "9", "0", ",", "0", "0", "0", " ", "t", "o", " ", "$", "9", "9", ",", "9", "9", "9">>,
               Pct(5, 7)),
       Bracket(<<"$", "1", "0", "0", ",", "0", "0", "0", " ", "t", "o", " ", "$", "1", "4", "9", ",", "9", "9", "9">>,
               Pct(13, 6)),
       Bracket(<<"$", "1", "5", "0", ",", "0", "0", "0", " ", "t", "o", " ", "$", "1", "9", "9", ",", "9", "9", "9">>,
               Pct(7, 3)),
       Bracket(<<"$", "2", "0", "0", ",", "0", "0", "0", " ", "a", "n", "d", " ", "o", "v", "e", "r">>,
               Pct(2, 9)) >>

\* get_sample_toronto_income_data: the record (geo_code, geo_name and
\* total_population are copied to the summary and take part in no computation)
get_sample_toronto_income_data ==
    [keys |-> IncomeDataKeys,
     average_household_income |-> Num(96000),
     median_household_income |-> Num(77000),
     income_distribution |-> SampleTorontoDistribution]

\* search_stats_can_data: 'income_distribution' of sample_income_data
SampleAnalyzerDistribution ==
    << Bracket(<<"<", "$", "2", "0", ",", "0", "0", "0">>,
               Pct(8, 5)),
       Bracket(<<"$", "2", "0", ",", "0", "0", "0", "-", "$", "3", "9", ",", "9", "9", "9">>,
               Pct(12, 1)),
       Bracket(<<"$", "4", "0", ",", "0", "0", "0", "-", "$", "5", "9", ",", "9", "9", "9">>,
               Pct(15, 3)),
       Bracket(<<"$", "6", "0", ",", "0", "0", "0", "-", "$", "7", "9", ",", "9", "9", "9">>,
               Pct(16, 7)),
       Bracket(<<"$", "8", "0", ",", "0", "0", "0", "-", "$", "9", "9", ",", "9", "9", "9">>,
               Pct(13, 2)),
       Bracket(<<"$", "1", "0", "0", ",", "0", "0", "0", "-", "$", "1", "4", "9", ",", "9", "9", "9">>,
               Pct(18, 4)),
       Bracket(<<"$", "1", "5", "0", ",", "0", "0", "0", "-", "$", "1", "9", "9", ",", "9", "9", "9">>,
               Pct(9, 8)),
       Bracket(<<"$", "2", "0", "0", ",", "0", "0", "0", "+">>,
               Pct(6, 0)) >>

search_stats_can_data ==
    [keys |-> IncomeDataKeys,
     average_household_income |-> Num(85000),
     median_household_income |-> Num(70000),
     income_distribution |-> SampleAnalyzerDistribution]

-----------------------------------------------------------------------------
(* fetch_statscan_income.py: calculate_income_statistics *)

fetch_calculate_income_statistics(d) ==
    LET avg_income == get(d, "average_household_income", Num(0))
        median_income == get(d, "median_household_income", Num(0))
        dist == get(d, "income_distribution", <<>>)
        top_75_percentile_threshold ==
            calculate_75th_percentile_threshold_from_distribution(dist)
        bottom_25_threshold ==
            calculate_bottom_25_threshold_from_distribution(dist)
        ratio_median_to_avg ==
            IF avg_income.num > 0 THEN Div(median_income, avg_income) ELSE Num(0)
    IN  IF Raised(top_75_percentile_threshold) THEN top_75_percentile_threshold
        ELSE IF Raised(bottom_25_threshold) THEN bottom_25_threshold
        ELSE [tag |-> "dict",
              average |-> avg_income,
              median |-> median_income,
              top_75_percentile_threshold |-> top_75_percentile_threshold,
              bottom_25_threshold |-> bottom_25_threshold,
              ratio_median_to_avg |-> ratio_median_to_avg]

(* statscan_income_analyzer.py: calculate_income_statistics *)

analyzer_calculate_income_statistics(d) ==
    LET dist == get(d, "income_distribution", <<>>)
        avg_income ==
            IF "average_household_income" \in d.keys
            THEN d.average_household_income
            ELSE estimate_average_from_distribution(dist)
        median_income ==
            IF "median_household_income" \in d.keys
            THEN d.median_household_income
            ELSE None
        top_75_income_threshold == calculate_top_75_threshold(dist)
    IN  IF Raised(top_75_income_threshold) THEN top_75_income_threshold
        ELSE [tag |-> "dict",
              average |-> avg_income,
              median |-> median_income,
              top_75_threshold |-> top_75_income_threshold]

-----------------------------------------------------------------------------
(* Inputs of the estimators *)

MaxBrackets == 3

SeqsUpTo(S, n) == UNION { [1..k -> S] : k \in 0..n }

NoData ==
    [keys |-> {}, average_household_income |-> None,
     median_household_income |-> None, income_distribution |-> <<>>]

\* labels of every kind the parsers tell apart, with and without numeric
\* tokens, and shares that reach 25 and 75 exactly, overshoot them or fall short
EstBrackets ==
    { Bracket(<<"U", "n", "d", "e", "r", " ", "$", "1", "0">>, Pct(10, 0)),
      Bracket(<<"U", "n", "d", "e", "r", " ", "$", "1", "0">>, Pct(25, 0)),
      Bracket(<<"$", "1", "0", " ", "t", "o", " ", "$", "1", "9">>, Pct(0, 0)),
      Bracket(<<"$", "1", "0", " ", "t", "o", " ", "$", "1", "9">>, Pct(25, 0)),
      Bracket(<<"$", "1", "0", " ", "t", "o", " ", "$", "1", "9">>, Pct(50, 0)),
      Bracket(<<"$", "2", "0", "+">>, Pct(10, 0)),
      Bracket(<<"$", "2", "0", "+">>, Pct(50, 0)),
      Bracket(<<"<", "$", "2", "0">>, Pct(25, 0)),
      Bracket(<<"<">>, Pct(10, 0)),
      Bracket(<<"<">>, Pct(50, 0)),
      Bracket(<<"n", "/", "a">>, Pct(25, 0)),
      Bracket(<<"$", "0">>, Pct(50, 0)) }

EstDistributions ==
    SeqsUpTo(EstBrackets, MaxBrackets)
        \cup {SampleTorontoDistribution, SampleAnalyzerDistribution}

-----------------------------------------------------------------------------
(* The estimator specification: one distribution, the four estimators *)

Init ==
    /\ distribution \in EstDistributions
    /\ range_str = <<>>
    /\ income_data = NoData
    /\ op = "none"
    /\ ret = None
    /\ thr = <<>>
    /\ frame = NoFrame

Call75thPercentile ==
    /\ op' = "calculate_75th_percentile_threshold_from_distribution"
    /\ ret' = calculate_75th_percentile_threshold_from_distribution(distribution)
    /\ UNCHANGED <<range_str, distribution, income_data, thr, frame>>

CallBottom25 ==
    /\ op' = "calculate_bottom_25_threshold_from_distribution"
    /\ ret' = calculate_bottom_25_threshold_from_distribution(distribution)
    /\ UNCHANGED <<range_str, distribution, income_data, thr, frame>>

CallTop75 ==
    /\ op' = "calculate_top_75_threshold"
    /\ ret' = calculate_top_75_threshold(distribution)
    /\ UNCHANGED <<range_str, distribution, income_data, thr, frame>>

CallEstimateAverage ==
    /\ op' = "estimate_average_from_distribution"
    /\ ret' = estimate_average_from_distribution(distribution)
    /\ UNCHANGED <<range_str, distribution, income_data, thr, frame>>

Next == Call75thPercentile \/ CallBottom25 \/ CallTop75 \/ CallEstimateAverage

Spec == Init /\ [][Next]_vars

-----------------------------------------------------------------------------
(* The summary specification: one income_data record, the two summary builders *)

StatDistributions ==
    { d \in EstDistributions : Len(d) <= 1 } \cup {SampleTorontoDistribution}

StatRecords ==
    { [keys |-> k,
       average_household_income |->
           IF "average_household_income" \in k THEN a ELSE None,
       median_household_income |->
           IF "median_household_income" \in k THEN m ELSE None,
       income_distribution |->
           IF "income_distribution" \in k THEN d ELSE <<>>] :
        k \in SUBSET IncomeDataKeys,
        a \in {Num(96000)}, m \in {Num(77000)}, d \in StatDistributions }

InitStats ==
    /\ income_data \in StatRecords \cup {get_sample_toronto_income_data,
                                        search_stats_can_data}
    /\ distribution = <<>>
    /\ range_str = <<>>
    /\ op = "none"
    /\ ret = None
    /\ thr = <<>>
    /\ frame = NoFrame

FetchCalculateIncomeStatistics ==
    /\ op' = "fetch.calculate_income_statistics"
    /\ ret' = fetch_calculate_income_statistics(income_data)
    /\ UNCHANGED <<range_str, distribution, income_data, thr, frame>>

AnalyzerCalculateIncomeStatistics ==
    /\ op' = "analyzer.calculate_income_statistics"
    /\ ret' = analyzer_calculate_income_statistics(income_data)
    /\ UNCHANGED <<range_str, distribution, income_data, thr, frame>>

NextStats == FetchCalculateIncomeStatistics \/ AnalyzerCalculateIncomeStatistics

SpecStats == InitStats /\ [][NextStats]_vars

-----------------------------------------------------------------------------
(* The target specification: one distribution, the interpolated estimator  *)
(* run at up to MaxTargets of the targets, thr[p] holding its result at p  *)

\* targets in (0, 100)
Targets == {Pct(10, 0), Pct(25, 0), Pct(50, 0), Pct(75, 0)}

\* brackets that can be put in ascending order, a zero share and a label
\* with no numeric token among them
TargetBrackets ==
    { Bracket(<<"$", "0">>, Pct(50, 0)),
      Bracket(<<"U", "n", "d", "e", "r", " ", "$", "1", "0">>, Pct(10, 0)),
      Bracket(<<"U", "n", "d", "e", "r", " ", "$", "1", "0">>, Pct(25, 0)),
      Bracket(<<"$", "1", "0", " ", "t", "o", " ", "$", "1", "9">>, Pct(0, 0)),
      Bracket(<<"$", "1", "0", " ", "t", "o", " ", "$", "1", "9">>, Pct(25, 0)),
      Bracket(<<"$", "1", "0", " ", "t", "o", " ", "$", "1", "9">>, Pct(50, 0)),
      Bracket(<<"$", "2", "0", "+">>, Pct(10, 0)),
      Bracket(<<"$", "2", "0", "+">>, Pct(50, 0)),
      Bracket(<<"n", "/", "a">>, Pct(25, 0)) }

TargetDistributions ==
    SeqsUpTo(TargetBrackets, MaxBrackets)
        \cup {SampleTorontoDistribution, SampleAnalyzerDistribution}

MaxTargets == 2

InitTargets ==
    /\ distribution \in TargetDistributions
    /\ range_str = <<>>
    /\ income_data = NoData
    /\ op = "none"
    /\ ret = None
    /\ thr = <<>>
    /\ frame = NoFrame

InterpolateAt(p) ==
    /\ p \notin DOMAIN thr
    /\ Cardinality(DOMAIN thr) < MaxTargets
    /\ thr' = (p :> ScanInterpolated(distribution, p, 1, 0)) @@ thr
    /\ UNCHANGED <<range_str, distribution, income_data, op, ret, frame>>

NextTargets == \E p \in Targets : InterpolateAt(p)

SpecTargets == InitTargets /\ [][NextTargets]_vars

-----------------------------------------------------------------------------
(* The loop specification: calculate_bottom_25_threshold_from_distribution *)
(* run statement by statement on one distribution, whatever its shares     *)

\* one pass from the for statement to the test of the bracket's share, with
\* the share added to cumulative_pct before the test and not after it
Iterate_AddFirst(f, d) ==
    LET percentage == d[f.i].percentage
        cumulative == f.cumulative_pct + percentage
    IN  IF cumulative >= Pct(25, 0)
        THEN [f EXCEPT !.pc = "divide",
                       !.percentage = percentage,
                       !.cumulative_pct = cumulative,
                       !.remaining_pct = Pct(25, 0) - cumulative]
        ELSE [f EXCEPT !.pc = "loop",
                       !.i = f.i + 1,
                       !.percentage = percentage,
                       !.cumulative_pct = cumulative]

\* one pass from the for statement to the test of the bracket's share:
\* either remaining_pct is set and the division is next, or the share is
\* added to cumulative_pct and the next bracket is taken
Iterate(f, d) ==
    LET percentage == d[f.i].percentage
    IN  IF f.cumulative_pct + percentage >= Pct(25, 0)
        THEN [f EXCEPT !.pc = "divide",
                       !.percentage = percentage,
                       !.remaining_pct = Pct(25, 0) - f.cumulative_pct]
        ELSE [f EXCEPT !.pc = "loop",
                       !.i = f.i + 1,
                       !.percentage = percentage,
                       !.cumulative_pct = f.cumulative_pct + percentage]

\* shares below 0, equal to 0 and above 0; labels in order, reversed, open
\* at either end and without a numeric token
LoopBrackets ==
    { Bracket(<<"$", "1", "0", " ", "t", "o", " ", "$", "1", "9">>, Pct(-10, 0)),
      Bracket(<<"$", "1", "0", " ", "t", "o", " ", "$", "1", "9">>, Pct(0, 0)),
      Bracket(<<"$", "1", "0", " ", "t", "o", " ", "$", "1", "9">>, Pct(25, 0)),
      Bracket(<<"$", "1", "0", " ", "t", "o", " ", "$", "1", "9">>, Pct(50, 0)),
      Bracket(<<"U", "n", "d", "e", "r", " ", "$", "1", "0">>, Pct(10, 0)),
      Bracket(<<"U", "n", "d", "e", "r", " ", "$", "1", "0">>, Pct(-25, 0)),
      Bracket(<<"$", "2", "0", "+">>, Pct(10, 0)),
      Bracket(<<"$", "2", "0", "+">>, Pct(50, 0)),
      Bracket(<<"$", "3", "9", "-", "$", "2", "0">>, Pct(25, 0)),
      Bracket(<<"n", "/", "a">>, Pct(25, 0)) }

LoopDistributions ==
    SeqsUpTo(LoopBrackets, MaxBrackets)
        \cup {SampleTorontoDistribution, SampleAnalyzerDistribution}

InitLoop ==
    /\ distribution \in LoopDistributions
    /\ range_str = <<>>
    /\ income_data = NoData
    /\ op = "none"
    /\ ret = None
    /\ thr = <<>>
    /\ frame = NoFrame

Bottom25Enter ==
    /\ frame.pc = "idle"
    /\ frame' = [frame EXCEPT !.pc = "loop", !.i = 1, !.cumulative_pct = 0]
    /\ op' = "calculate_bottom_25_threshold_from_distribution"
    /\ UNCHANGED <<range_str, distribution, income_data, ret, thr>>

Bottom25Iterate ==
    /\ frame.pc = "loop"
    /\ frame.i <= Len(distribution)
    /\ frame' = Iterate(frame, distribution)
    /\ UNCHANGED <<range_str, distribution, income_data, op, ret, thr>>

Bottom25Interpolate ==
    /\ frame.pc = "divide"
    /\ frame' = [frame EXCEPT
                    !.pc = "done",
                    !.bracket_share =
                        Div(Num(frame.remaining_pct), Num(frame.percentage))]
    /\ ret' = InterpolateInBracket(distribution[frame.i], Pct(25, 0),
                                   frame.cumulative_pct)
    /\ UNCHANGED <<range_str, distribution, income_data, op, thr>>

Bottom25Exhausted ==
    /\ frame.pc = "loop"
    /\ frame.i > Len(distribution)
    /\ frame' = [frame EXCEPT !.pc = "done"]
    /\ ret' = LastMaximumOrZero(distribution)
    /\ UNCHANGED <<range_str, distribution, income_data, op, thr>>

NextLoop ==
    Bottom25Enter \/ Bottom25Iterate \/ Bottom25Interpolate \/ Bottom25Exhausted

SpecLoop == InitLoop /\ [][NextLoop]_vars

-----------------------------------------------------------------------------
(* Labels the parsers are run on: prefix, first amount, rest, suffix *)

LabelPrefix ==
    { <<>>,
      <<"U", "n", "d", "e", "r", " ">>,
      <<"<">>,
      <<">">>,
      <<"T", "o", "t", "a", "l">> }

LabelFirst ==
    { <<>>,
      <<"$", "0">>,
      <<"$", "2", "0">>,
      <<"$", "1", ",", "0", "0", "0">> }

LabelRest ==
    { <<>>,
      <<" ", "t", "o", " ", "$", "3", "9">>,
      <<"-", "$", "0">>,
      <<"-", "5", "-", "7">> }

LabelSuffix ==
    { <<>>,
      <<" ", "a", "n", "d", " ", "o", "v", "e", "r">>,
      <<"+">>,
      <<"+", " ">> }

\* non-empty text, as the data provider guarantees
Labels ==
    { l \in { p \o f \o r \o x :
                p \in LabelPrefix, f \in LabelFirst,
                r \in LabelRest, x \in LabelSuffix } : l # <<>> }
        \cup { SampleTorontoDistribution[i].range :
                 i \in 1..Len(SampleTorontoDistribution) }
        \cup { SampleAnalyzerDistribution[i].range :
                 i \in 1..Len(SampleAnalyzerDistribution) }

-----------------------------------------------------------------------------
(* The parser specification: one label, the three parsers applied to it *)

InitParse ==
    /\ range_str \in Labels
    /\ distribution = <<>>
    /\ income_data = NoData
    /\ op = "none"
    /\ ret = None
    /\ thr = <<>>
    /\ frame = NoFrame

ExtractMinimum ==
    /\ op' = "extract_minimum_of_range"
    /\ ret' = extract_minimum_of_range(range_str)
    /\ UNCHANGED <<range_str, distribution, income_data, thr, frame>>

ExtractMaximum ==
    /\ op' = "extract_maximum_of_range"
    /\ ret' = extract_maximum_of_range(range_str)
    /\ UNCHANGED <<range_str, distribution, income_data, thr, frame>>

ExtractMidpoint ==
    /\ op' = "extract_midpoint_of_range"
    /\ ret' = extract_midpoint_of_range(range_str)
    /\ UNCHANGED <<range_str, distribution, income_data, thr, frame>>

NextParse == ExtractMinimum \/ ExtractMaximum \/ ExtractMidpoint

SpecParse == InitParse /\ [][NextParse]_vars

-----------------------------------------------------------------------------
(* Properties *)

EstimatorOps ==
    { "calculate_75th_percentile_threshold_from_distribution",
      "calculate_bottom_25_threshold_from_distribution",
      "calculate_top_75_threshold",
      "estimate_average_from_distribution" }

\* the numeric tokens of a label, '$' and ',' stripped
Tokens(l) == findall(clean_str(l))

\* the sum of the shares of the first k brackets
RECURSIVE CumulativeShare(_, _)
CumulativeShare(d, k) ==
    IF k = 0 THEN 0 ELSE CumulativeShare(d, k - 1) + d[k].percentage

\* the brackets at which the cumulative share has reached the target
Reaches(d, target) == { k \in 1..Len(d) : CumulativeShare(d, k) >= target }

FirstReaching(d, target) ==
    CHOOSE k \in Reaches(d, target) : \A j \in Reaches(d, target) : k <= j

NeverReaches(d, target) == d # <<>> /\ Reaches(d, target) = {}

AllLabelsParse(d) == \A i \in 1..Len(d) : Tokens(d[i].range) # <<>>

\* C1: boundary mode at target 75 returns the lower bound of the first bracket
\* at which the cumulative share is >= 75 (all labels parsing), and 90000 on
\* the sample distribution of get_sample_toronto_income_data.
C1_Boundary75 ==
    op = "calculate_75th_percentile_threshold_from_distribution" =>
        /\ (AllLabelsParse(distribution) /\ Reaches(distribution, Pct(75, 0)) # {}) =>
               ret = extract_minimum_of_range(
                         distribution[FirstReaching(distribution, Pct(75, 0))].range)
        /\ distribution = SampleTorontoDistribution => ret = Num(90000)

\* the cumulative share is exactly 75 at the second of three brackets, whose
\* lower bound 10 is returned
C1_Witness ==
    /\ op = "calculate_75th_percentile_threshold_from_distribution"
    /\ Len(distribution) = 3
    /\ AllLabelsParse(distribution)
    /\ CumulativeShare(distribution, 1) < Pct(75, 0)
    /\ CumulativeShare(distribution, 2) = Pct(75, 0)
    /\ extract_minimum_of_range(distribution[3].range) # ret
    /\ ret = Num(10)

\* C2: interpolated mode at target 25 returns, for the first bracket b whose
\* share brings the cumulative share to 25 and whose bounds parse, a whole
\* number nearest to min(b) + ((25 - cumulative before b) / share(b)) *
\* (max(b) - min(b)).
C2_Interpolated25 ==
    (/\ op = "calculate_bottom_25_threshold_from_distribution"
     /\ Reaches(distribution, Pct(25, 0)) # {}) =>
        LET k == FirstReaching(distribution, Pct(25, 0))
            b == distribution[k]
            before == CumulativeShare(distribution, k - 1)
            mn == extract_minimum_of_range(b.range)
            mx == extract_maximum_of_range(b.range)
        IN  (IsNum(mn) /\ IsNum(mx)) =>
                /\ b.percentage > 0
                /\ IsNum(ret)
                /\ ret.den = 1
                /\ 2 * Abs(ret.num * b.percentage
                           - (mn.num * b.percentage
                              + (Pct(25, 0) - before) * (mx.num - mn.num)))
                       <= b.percentage

\* 10% lie below the second bracket '$10 to $19' of share 25%: the result is
\* 10 + (15 / 25) * 9 = 15.4, rounded to 15
C2_Witness ==
    /\ op = "calculate_bottom_25_threshold_from_distribution"
    /\ Reaches(distribution, Pct(25, 0)) # {}
    /\ FirstReaching(distribution, Pct(25, 0)) = 2
    /\ CumulativeShare(distribution, 1) = Pct(10, 0)
    /\ distribution[2].percentage = Pct(25, 0)
    /\ extract_minimum_of_range(distribution[2].range) = Num(10)
    /\ extract_maximum_of_range(distribution[2].range) = Num(19)
    /\ ret = Num(15)

\* C3: for every label the midpoint of the Average Estimator is
\* (minimum + maximum) / 2 of the range parser's bounds for that label, an
\* open-ended top bracket capped at twice its token.
C3_MidpointOfBounds ==
    op = "extract_midpoint_of_range" =>
        LET mn == extract_minimum_of_range(range_str)
            mx == extract_maximum_of_range(range_str)
        IN  IF IsNum(mn) /\ IsNum(mx)
            THEN ret = Frac(mn.num + mx.num, 2)
            ELSE IsNone(ret)

\* the kinds of label, as the rules of the range parser word them
UnderLessThanKind(l) ==
    Contains(lower(clean_str(l)), kw_under) \/ Contains(clean_str(l), <<"<">>)

AndOverPlusKind(l) ==
    Contains(lower(clean_str(l)), kw_over) \/ endswith(strip(clean_str(l)), "+")

\* the labels the rules give bounds for
RuleApplies(l) ==
    UnderLessThanKind(l) \/ AndOverPlusKind(l) \/ Len(Tokens(l)) <= 2

\* <<minimum, maximum>> by the rules, in their precedence
RuleBounds(l) ==
    LET n == Tokens(l)
    IN  IF n = <<>> THEN <<None, None>>
        ELSE IF UnderLessThanKind(l) THEN <<Num(0), Num(int(n[1]))>>
        ELSE IF AndOverPlusKind(l) THEN <<Num(int(n[1])), Num(2 * int(n[1]))>>
        ELSE IF Len(n) = 2 THEN <<Num(int(n[1])), Num(int(n[2]))>>
        ELSE <<Num(int(n[1])), Num(int(n[1]))>>

\* C4: extract_minimum_of_range and extract_maximum_of_range implement the
\* rules of the range parser: under/less-than gives (0, N), and-over/plus
\* gives (N, 2N), two tokens (first, second), one token (token, token), no
\* token None.
C4_RangeParserRules ==
    /\ (op = "extract_minimum_of_range" /\ RuleApplies(range_str)) =>
           ret = RuleBounds(range_str)[1]
    /\ (op = "extract_maximum_of_range" /\ RuleApplies(range_str)) =>
           ret = RuleBounds(range_str)[2]

\* C5: on the empty distribution every estimator returns 0.
C5_EmptyReturnsZero ==
    (distribution = <<>> /\ op \in EstimatorOps) => ret = Num(0)

\* calculate_top_75_threshold has run on the empty distribution
C5_Witness ==
    /\ distribution = <<>>
    /\ op = "calculate_top_75_threshold"
    /\ ret = Num(0)

\* labels are non-empty text, shares are non-negative
InputGuarantees(d) ==
    \A i \in 1..Len(d) : d[i].range # <<>> /\ d[i].percentage >= 0

\* C6: on every distribution that meets the input guarantees each estimator
\* returns a number and ends with no exception.
C6_NoEstimatorRaises ==
    (op \in EstimatorOps /\ InputGuarantees(distribution)) => IsNum(ret)

LastBracket(d) == d[Len(d)]

\* C7: when the cumulative share never reaches the target on a non-empty
\* distribution, each percentile estimator returns the upper bound of the
\* last bracket.
C7_LastMaxBound ==
    LET last == LastBracket(distribution).range
    IN  /\ (/\ op = "calculate_75th_percentile_threshold_from_distribution"
            /\ NeverReaches(distribution, Pct(75, 0))
            /\ Tokens(last) # <<>>) => ret = extract_maximum_of_range(last)
        /\ (/\ op = "calculate_bottom_25_threshold_from_distribution"
            /\ NeverReaches(distribution, Pct(25, 0))
            /\ Tokens(last) # <<>>) => ret = extract_maximum_of_range(last)
        /\ (/\ op = "calculate_top_75_threshold"
            /\ NeverReaches(distribution, Pct(25, 0))
            /\ Tokens(last) # <<>>) => ret = extract_maximum_of_range(last)

\* C7 (amended): when the cumulative share never reaches the target on a
\* non-empty distribution, the two estimators of fetch_statscan_income.py
\* return the upper bound of the last bracket (twice its token when it is
\* open-ended), calculate_top_75_threshold returns the first numeric token of
\* the last bracket's label, and all three return 0 when that label has no
\* numeric token.
C7_FallThrough ==
    LET last == LastBracket(distribution).range
    IN  /\ (/\ op = "calculate_75th_percentile_threshold_from_distribution"
            /\ NeverReaches(distribution, Pct(75, 0))) =>
               ret = IF Tokens(last) # <<>>
                     THEN extract_maximum_of_range(last) ELSE Num(0)
        /\ (/\ op = "calculate_bottom_25_threshold_from_distribution"
            /\ NeverReaches(distribution, Pct(25, 0))) =>
               ret = IF Tokens(last) # <<>>
                     THEN extract_maximum_of_range(last) ELSE Num(0)
        /\ (/\ op = "calculate_top_75_threshold"
            /\ NeverReaches(distribution, Pct(25, 0))) =>
               ret = IF Tokens(last) # <<>>
                     THEN Num(int(Tokens(last)[1])) ELSE Num(0)

\* the shares stay below 25 and the last bracket is '$10 to $19':
\* calculate_top_75_threshold returns 10, not the upper bound 19
C7_Witness ==
    /\ op = "calculate_top_75_threshold"
    /\ Len(distribution) = 2
    /\ NeverReaches(distribution, Pct(25, 0))
    /\ CumulativeShare(distribution, 2) > 0
    /\ extract_maximum_of_range(LastBracket(distribution).range) = Num(19)
    /\ ret = Num(10)

\* the brackets whose label yields a numeric midpoint
Contributing(d) ==
    { i \in 1..Len(d) : IsNum(extract_midpoint_of_range(d[i].range)) }

RECURSIVE ContributingShare(_, _)
ContributingShare(d, k) ==
    IF k = 0 THEN 0
    ELSE ContributingShare(d, k - 1)
             + (IF k \in Contributing(d) THEN d[k].percentage ELSE 0)

RECURSIVE ContributingWeighted(_, _)
ContributingWeighted(d, k) ==
    IF k = 0 THEN Num(0)
    ELSE IF k \in Contributing(d)
         THEN Add(ContributingWeighted(d, k - 1),
                  Mul(extract_midpoint_of_range(d[k].range), Num(d[k].percentage)))
         ELSE ContributingWeighted(d, k - 1)

\* C8: estimate_average_from_distribution returns sum(midpoint x share) /
\* sum(share) over exactly the brackets whose label yields a numeric midpoint,
\* a midpoint of 0 included, and 0 when the contributing share is 0.
C8_AverageOverNumericMidpoints ==
    op = "estimate_average_from_distribution" =>
        ret = IF ContributingShare(distribution, Len(distribution)) = 0
              THEN Num(0)
              ELSE Div(ContributingWeighted(distribution, Len(distribution)),
                       Num(ContributingShare(distribution, Len(distribution))))

\* C9: both calculate_income_statistics return a direct average and a direct
\* median unchanged, the Average Estimator's result for a missing average and
\* None for a missing median.
C9_SummaryBuilding ==
    (/\ op \in {"fetch.calculate_income_statistics",
                "analyzer.calculate_income_statistics"}
     /\ ret.tag = "dict") =>
        /\ ret.average =
               IF "average_household_income" \in income_data.keys
               THEN income_data.average_household_income
               ELSE estimate_average_from_distribution(
                        get(income_data, "income_distribution", <<>>))
        /\ ret.median =
               IF "median_household_income" \in income_data.keys
               THEN income_data.median_household_income
               ELSE None

\* every label parses, each bracket's bounds are in order and no bracket
\* starts below the end of the one before it
Ascending(d) ==
    /\ \A i \in 1..Len(d) :
           /\ IsNum(extract_minimum_of_range(d[i].range))
           /\ IsNum(extract_maximum_of_range(d[i].range))
           /\ Leq(extract_minimum_of_range(d[i].range),
                  extract_maximum_of_range(d[i].range))
    /\ \A i \in 1..(Len(d) - 1) :
           Leq(extract_maximum_of_range(d[i].range),
               extract_minimum_of_range(d[i + 1].range))

SumsTo100(d) == CumulativeShare(d, Len(d)) = Pct(100, 0)

C12_LoopInvariant ==
    /\ (frame.pc = "loop" /\ frame.i <= Len(distribution)) =>
           frame.cumulative_pct < Pct(25, 0)
    /\ frame.pc = "divide" =>
           /\ 0 < frame.remaining_pct
           /\ frame.remaining_pct <= frame.percentage
           /\ frame.percentage # 0
    /\ (frame.pc = "done" /\ ~IsNone(frame.bracket_share)) =>
           LET mn == extract_minimum_of_range(distribution[frame.i].range)
               mx == extract_maximum_of_range(distribution[frame.i].range)
           IN  /\ IsNum(frame.bracket_share)
               /\ 0 < frame.bracket_share.num
               /\ Leq(frame.bracket_share, Num(1))
               /\ (IsNum(mn) /\ IsNum(mx)) =>
                      /\ IsNum(ret)
                      /\ \/ Leq(mn, ret) /\ Leq(ret, mx)
                         \/ Leq(mx, ret) /\ Leq(ret, mn)

\* the division has run at the third bracket, past a share of 0 or less, with
\* a fraction strictly inside (0, 1) and a result strictly inside the bracket
C12_Witness ==
    /\ frame.pc = "done"
    /\ frame.i = 3
    /\ \E j \in 1..2 : distribution[j].percentage <= 0
    /\ IsNum(frame.bracket_share)
    /\ frame.bracket_share.num < frame.bracket_share.den
    /\ IsNum(ret)
    /\ extract_minimum_of_range(distribution[3].range).num < ret.num
    /\ ret.num < extract_maximum_of_range(distribution[3].range).num

====
